---- MODULE Spec2Model ----
(***************************************************************************)
(* GitHub Repositories Viewer (main.py, models.py, database.py).           *)
(*                                                                         *)
(* The committed content of the two tables, the coroutines of the event    *)
(* loop (the POST /api/github/{username} handlers and the scheduled        *)
(* refresh_all_users job) and the last value returned or raised.           *)
(*                                                                         *)
(* Scheduling.  Every coroutine runs on the one asyncio event loop of the  *)
(* process (AsyncIOScheduler shares it with the request handlers).  The    *)
(* only await of a handler is the HTTP request of fetch_github_repos;      *)
(* upsert_user_and_repos is an ordinary function with blocking SQLAlchemy  *)
(* calls, so the code from the resumption after the fetch to the return of *)
(* the handler runs without any other coroutine in between.  A step of the *)
(* model is therefore one such segment.                                    *)
(*                                                                         *)
(* Values.  Strings are modelled by positive integer codes and Python's    *)
(* None by 0, so that a column can be compared with None and names can be  *)
(* ordered.  A fetched repository is a function from some of the keys      *)
(* "id", "name", "html_url", "description", "language" to values.          *)
(***************************************************************************)
EXTENDS Integers, Sequences, FiniteSets, Bags, TLC

\* ---------------------------------------------------------------- bounds

\* Number of reconciliations that reach line 149 (values of the clock).
MaxClock == 3
\* Longest list the GitHub API returns in the model (more than data[:5]).
MaxLen == 6
\* Longest of the short lists, whose records vary in shape.
MaxShort == 2

\* ------------------------------------------------------ program constants

None == 0
\* data[:5]
TopN == 5

Usernames == {"alice", "bob"}
Callers == {"c1", "c2"}

\* ---------------------------------------------------- the fetched records

Range(s) == {s[j] : j \in 1..Len(s)}

\* The sequences without repetition of elements of S.
Seq1(S) == UNION {{s \in [1..n -> S] : Cardinality(Range(s)) = n} :
                     n \in 0..Cardinality(S)}

Keys == {"id", "name", "html_url", "description", "language"}

\* The record GitHub returns for repository i in version v of its metadata.
Rec(i, v) ==
    [k \in Keys |->
        CASE k = "id" -> i
          [] k = "name" -> 10 * i + v
          [] k = "html_url" -> 100 + i
          [] k = "description" -> 200 + v
          [] k = "language" -> 300 + v]

Without(r, k) == [x \in (DOMAIN r) \ {k} |-> r[x]]

Base(lo, n, v) == [j \in 1..n |-> Rec(lo + j - 1, v)]

\* A list whose first record is r and whose others are those of l.
WithHead(l, r) == [j \in 1..Len(l) |-> IF j = 1 THEN r ELSE l[j]]

\* The lists of repositories 1..MaxShort in version v, and their slices.
ShortLists ==
    {SubSeq(Base(1, MaxShort, v), a, b) :
        a \in 1..MaxShort, b \in 0..MaxShort, v \in 1..2}

\* The list of repositories 1..MaxShort with the first record lacking its
\* id, its name or its description, or followed by a second record of
\* repository 1, and a list with a record without id and one without name.
Variations ==
    {WithHead(Base(1, MaxShort, 1), Without(Rec(1, 1), "id")),
     WithHead(Base(1, MaxShort, 1), Without(Rec(1, 1), "name")),
     WithHead(Base(1, MaxShort, 1), Without(Rec(1, 1), "description")),
     Append(Base(1, MaxShort, 1), Rec(1, 2)),
     Append(WithHead(Base(1, MaxShort, 1), Without(Rec(1, 1), "id")),
            Without(Rec(MaxShort + 1, 1), "name"))}

\* Lists of data[:5] and longer.
LongLists == {Base(1, n, 1) : n \in TopN..MaxLen}

Lists == ShortLists \cup Variations \cup LongLists

\* The responses of GitHub whose list is one of lists.
Responses(lists) ==
    {[status_code |-> 404], [status_code |-> 500],
     [status_code |-> 200, json |-> [type |-> "dict"]]}
    \cup {[status_code |-> 200, json |-> [type |-> "list", items |-> l]] :
             l \in lists}

\* repo.get(k)
Get(repo, k) == IF k \in DOMAIN repo THEN repo[k] ELSE None

Truncate_Nothing(data) == data

\* data[:5]
Truncate(data) == SubSeq(data, 1, IF Len(data) < TopN THEN Len(data) ELSE TopN)

\* fetch_github_repos, given what the request ended with.
fetch_github_repos(response) ==
    IF response.status_code = 404
    THEN [raised |-> "HTTPException", status_code |-> 404]
    ELSE IF response.status_code # 200
    THEN [raised |-> "HTTPException", status_code |-> 502]
    ELSE IF response.json.type # "list"
    THEN [raised |-> "HTTPException", status_code |-> 502]
    ELSE [raised |-> "no", data |-> Truncate(response.json.items)]

\* ------------------------------------------------------------- the store

VARIABLES
    users,          \* table users: rows [id, username, last_synced_at]
    repositories,   \* table repositories: a bag of rows
    clock,          \* datetime.utcnow(), as a counter
    pc,             \* per caller: "idle" or "fetching" (awaiting line 65)
    target,         \* per caller: the username of the request in progress
    jobpc,          \* refresh_all_users: "idle" or "fetching"
    snapshot,       \* refresh_all_users: usernames (line 206)
    idx,            \* refresh_all_users: position in the loop of line 211
    sessions,       \* the SessionLocal() objects not yet closed
    out,            \* what the latest step returned, raised or printed
    last,           \* what the latest step committed (history)
    synced,         \* per username: the list of its last committed
                    \* reconcile (history)
    stale           \* the coroutines awaiting a fetch for a username that
                    \* was reconciled since they began (history)

vars == <<users, repositories, clock, pc, target, jobpc, snapshot, idx,
          sessions, out, last, synced, stale>>

\* The primary key of a new users row.
NextUserId(us) == Cardinality(us) + 1

\* Query.first(): the result of a query is an object or None.  It is
\* modelled as a set of at most one row, {} for None.
First(hits) == IF hits = {} THEN {} ELSE {CHOOSE r \in hits : TRUE}

The(opt) == CHOOSE r \in opt : TRUE

\* db.query(User).filter(User.username == username).first()
QueryUser(us, username) == First({u \in us : u.username = username})

QueryRepo_AnyUser(repos, uid, gid) ==
    First({r \in BagToSet(repos) : r.github_id = gid})

\* db.query(Repository).filter(user_id == uid, github_id == gid).first()
QueryRepo(repos, uid, gid) ==
    First({r \in BagToSet(repos) : r.user_id = uid /\ r.github_id = gid})

\* Lines 136-139.
Overwrite(row, repo) ==
    [row EXCEPT !.name = Get(repo, "name"),
                !.html_url = Get(repo, "html_url"),
                !.description = Get(repo, "description"),
                !.language = Get(repo, "language")]

\* Repository(user_id=user.id, github_id=github_id)
NewRepository(uid, gid) ==
    [user_id |-> uid, github_id |-> gid, name |-> None, html_url |-> None,
     description |-> None, language |-> None]

\* The session during the loop of lines 112-139: github_repo_ids, the new
\* objects (db.add; autoflush=False keeps them out of the queries) and the
\* loaded rows with their pending changes, by github_id (the identity map).
EmptySession == [ids |-> <<>>, new |-> <<>>, loaded |-> <<>>, gids |-> {}]

Loaded(sess, gid) ==
    CHOOSE j \in 1..Len(sess.loaded) : sess.loaded[j].now.github_id = gid

\* One iteration of the loop of line 112.
LoopBody(sess, repos, uid, repo) ==
    LET github_id == Get(repo, "id")
        ids == Append(sess.ids, github_id)
    IN IF github_id = None THEN sess
       ELSE IF github_id \in sess.gids
       THEN LET j == Loaded(sess, github_id)
            IN [sess EXCEPT !.ids = ids,
                            !.loaded[j].now = Overwrite(@, repo)]
       ELSE LET db_repo == QueryRepo(repos, uid, github_id)
            IN IF db_repo = {}
               THEN [sess EXCEPT !.ids = ids,
                       !.new = Append(@, Overwrite(NewRepository(uid, github_id), repo))]
               ELSE [sess EXCEPT !.ids = ids,
                       !.gids = @ \cup {github_id},
                       !.loaded = Append(@, [was |-> The(db_repo),
                                             now |-> Overwrite(The(db_repo), repo)])]

RECURSIVE Loop(_, _, _, _)
Loop(sess, repos, uid, repos_data) ==
    IF repos_data = <<>> THEN sess
    ELSE Loop(LoopBody(sess, repos, uid, Head(repos_data)), repos, uid,
              Tail(repos_data))

Prune_Nothing(repos, uid, github_repo_ids) == repos

Prune_AllUsers(repos, uid, github_repo_ids) ==
    LET gone == {r \in BagToSet(repos) :
                    r.github_id \notin Range(github_repo_ids)}
    IN [r \in BagToSet(repos) \ gone |-> repos[r]]

\* Lines 142-147: the bulk DELETE, run at once on the rows of the table.
Prune(repos, uid, github_repo_ids) ==
    LET gone == {r \in BagToSet(repos) :
                    r.user_id = uid /\ r.github_id \notin Range(github_repo_ids)}
    IN [r \in BagToSet(repos) \ gone |-> repos[r]]

RECURSIVE Updated(_, _)
Updated(repos, loaded) ==
    IF loaded = <<>> THEN repos
    ELSE Updated((repos (-) SetToBag({Head(loaded).was}))
                    (+) SetToBag({Head(loaded).now}), Tail(loaded))

RECURSIVE Inserted(_, _)
Inserted(repos, new) ==
    IF new = <<>> THEN repos
    ELSE Inserted(repos (+) SetToBag({Head(new)}), Tail(new))

\* The flush of commit: the UPDATEs of the loaded rows, the INSERTs.
Flush(repos, sess) == Inserted(Updated(repos, sess.loaded), sess.new)

\* models.py 56-57: name and html_url are nullable=False.
NotNull(repos) ==
    \A r \in BagToSet(repos) : r.name # None /\ r.html_url # None

uq_user_repo_None(repos) == TRUE

\* models.py 50: UniqueConstraint("user_id", "github_id").
uq_user_repo(repos) ==
    /\ \A r \in BagToSet(repos) : repos[r] = 1
    /\ \A r, s \in BagToSet(repos) :
          (r.user_id = s.user_id /\ r.github_id = s.github_id) => r = s

\* models.py 22: username is unique.
uq_username(us) == \A u, w \in us : u.username = w.username => u = w

\* The database accepts the flushed rows.
Constraints(us, repos) ==
    uq_username(us) /\ NotNull(repos) /\ uq_user_repo(repos)

\* The repositories of one user.
ReposOf(repos, uid) == {r \in BagToSet(repos) : r.user_id = uid}

\* RepositoryBase.from_orm(r)
RepositoryBase(r) ==
    [name |-> r.name, html_url |-> r.html_url, description |-> r.description,
     language |-> r.language]

\* Lines 154-159: .order_by(Repository.name.asc()).all(), ties in any order.
RECURSIVE OrderByName(_)
OrderByName(rows) ==
    IF rows = {} THEN <<>>
    ELSE LET r == CHOOSE x \in rows : \A y \in rows : x.name <= y.name
         IN <<r>> \o OrderByName(rows \ {r})

Map(f(_), s) == [j \in 1..Len(s) |-> f(s[j])]

\* The round trips to the database of upsert_user_and_repos, in order.
StorePoints ==
    <<"query_user", "flush", "query_repo", "delete", "commit", "refresh",
      "query_repos">>

Raise(exc, at) == [raised |-> exc, at |-> at]

\* The rows a statement changed, for the history.
NoStats == [inserted |-> 0, updated |-> 0, deleted |-> 0]

Rollback_KeepFlushed(us, flushed, repos, exc, at) ==
    [users |-> flushed, repositories |-> repos, ret |-> [raised |-> exc, at |-> at],
     stats |-> [inserted |-> 0, updated |-> 0, deleted |-> 0]]

Status_New(is_new) == "new"

\* An exception before the end of db.commit(): the session is closed with
\* its transaction open (database.py 28, main.py 216), which rolls it back,
\* the flushed users row of line 107 included.
Rollback(us, flushed, repos, exc, at) ==
    [users |-> us, repositories |-> repos, ret |-> Raise(exc, at),
     stats |-> NoStats]

\* Line 163.
Status(is_new) == IF is_new THEN "new" ELSE "updated"

\* upsert_user_and_repos on the committed tables us and repos at time now.
\* fail names the round trip at which the database fails ("none": nowhere);
\* a round trip the call does not make cannot fail.  The result is the
\* committed tables after the call and what the call returned or raised.
upsert_user_and_repos(us, repos, username, repos_data, now, fail) ==
    LET found == QueryUser(us, username)
        is_new == found = {}
        user == IF is_new
                THEN [id |-> NextUserId(us), username |-> username,
                      last_synced_at |-> None]
                ELSE The(found)
        flushed == IF is_new THEN us \cup {user} ELSE us
        sess == Loop(EmptySession, repos, user.id, repos_data)
        pruned == Prune(repos, user.id, sess.ids)
        us2 == (flushed \ {user}) \cup {[user EXCEPT !.last_synced_at = now]}
        repos2 == Flush(pruned, sess)
        stats == [inserted |-> Len(sess.new),
                  updated |-> Cardinality({j \in 1..Len(sess.loaded) :
                                 sess.loaded[j].was # sess.loaded[j].now}),
                  deleted |-> BagCardinality(repos) - BagCardinality(pruned)]
    IN CASE fail = "query_user" ->
                Rollback(us, us, repos, "OperationalError", fail)
         [] fail = "flush" /\ is_new ->
                Rollback(us, us, repos, "OperationalError", fail)
         [] fail = "query_repo" /\ sess.ids # <<>> ->
                Rollback(us, flushed, repos, "OperationalError", fail)
         [] fail = "delete" ->
                Rollback(us, flushed, repos, "OperationalError", fail)
         [] fail = "commit" ->
                Rollback(us, flushed, repos, "OperationalError", fail)
         [] ~Constraints(us2, repos2) ->
                Rollback(us, flushed, repos, "IntegrityError", "commit")
         [] fail \in {"refresh", "query_repos"} ->
                [users |-> us2, repositories |-> repos2,
                 ret |-> Raise("OperationalError", fail), stats |-> stats]
         [] OTHER ->
                [users |-> us2, repositories |-> repos2,
                 ret |-> [raised |-> "no",
                          username |-> username,
                          status |-> Status(is_new),
                          is_new |-> is_new,
                          repositories |->
                              Map(RepositoryBase,
                                  OrderByName(ReposOf(repos2, user.id)))],
                 stats |-> stats]

\* ------------------------------------------------------------ the handlers

NoRequest == "-"

NeverSynced == [known |-> FALSE, data |-> <<>>]

Nothing == [raised |-> "none"]

\* called: upsert_user_and_repos was called, with data for username, the
\* first five of received records; existed: the users row was there
\* before; committed: the call committed; same: data is the list of the
\* last committed reconcile of username; raced: another reconcile of
\* username was committed since the caller began; kept: the table
\* repositories is as before; stats: the rows changed.
NoLast ==
    [called |-> FALSE, committed |-> FALSE, username |-> NoRequest,
     data |-> <<>>, received |-> 0, existed |-> FALSE, same |-> FALSE,
     raced |-> FALSE, kept |-> TRUE, stats |-> NoStats]

Init ==
    /\ users = {}
    /\ repositories = EmptyBag
    /\ clock = 0
    /\ pc = [c \in Callers |-> "idle"]
    /\ target = [c \in Callers |-> NoRequest]
    /\ jobpc = "idle"
    /\ snapshot = <<>>
    /\ idx = 0
    /\ sessions = 0
    /\ out = Nothing
    /\ last = NoLast
    /\ synced = [u \in Usernames |-> NeverSynced]
    /\ stale = {}

FailPoints == {"none"} \cup Range(StorePoints)

\* What awaiting the request of line 65 can end with: a response, or an
\* exception of httpx (timeout=10.0, no connection).
Outcomes(lists) == {[exception |-> "TransportError"]} \cup
    {[exception |-> "no", response |-> r] : r \in Responses(lists)}

\* The coroutines awaiting the fetch for username, but for proc.
Awaiting(username, proc) ==
    ({c \in Callers : pc[c] = "fetching" /\ target[c] = username}
        \cup (IF jobpc = "fetching" /\ snapshot[idx] = username
              THEN {"job"} ELSE {})) \ {proc}

\* No call of upsert_user_and_repos, or one that committed nothing.
NoCommit(proc) ==
    /\ stale' = stale \ {proc}
    /\ last' = NoLast
    /\ UNCHANGED <<users, repositories, clock, synced>>

\* The call of upsert_user_and_repos of lines 182 and 190 by coroutine proc,
\* on the first five of the received records, and the history.
Reconcile(proc, username, received, repos_data, fail) ==
    LET r == upsert_user_and_repos(users, repositories, username, repos_data,
                                   clock + 1, fail)
        committed == r.users # users
    IN /\ clock < MaxClock
       /\ out' = r.ret
       /\ IF committed
          THEN /\ users' = r.users
               /\ repositories' = r.repositories
               /\ clock' = clock + 1
               /\ synced' = [synced EXCEPT ![username] =
                               [known |-> TRUE, data |-> repos_data]]
               /\ stale' = (stale \ {proc}) \cup Awaiting(username, proc)
          ELSE /\ stale' = stale \ {proc}
               /\ UNCHANGED <<users, repositories, clock, synced>>
       /\ last' = [called |-> TRUE, committed |-> committed,
                   username |-> username, data |-> repos_data,
                   received |-> received,
                   existed |-> \E u \in users : u.username = username,
                   same |-> synced[username].known
                            /\ synced[username].data = repos_data,
                   raced |-> proc \in stale,
                   kept |-> r.repositories = repositories,
                   stats |-> r.stats]

\* sync_github_user up to the await of line 65 (get_db opens the session).
sync_github_user_start(c, username) ==
    /\ pc[c] = "idle"
    /\ pc' = [pc EXCEPT ![c] = "fetching"]
    /\ target' = [target EXCEPT ![c] = username]
    /\ sessions' = sessions + 1
    /\ out' = Nothing
    /\ last' = NoLast
    /\ UNCHANGED <<users, repositories, clock, jobpc, snapshot, idx, synced,
                   stale>>

\* sync_github_user from the end of the request of line 65 to its return
\* or exception; get_db closes the session in either case.
sync_github_user_resume(c, outcome, fail) ==
    /\ pc[c] = "fetching"
    /\ pc' = [pc EXCEPT ![c] = "idle"]
    /\ target' = [target EXCEPT ![c] = NoRequest]
    /\ sessions' = sessions - 1
    /\ IF outcome.exception # "no"
       THEN /\ out' = Raise(outcome.exception, "fetch")
            /\ NoCommit(c)
       ELSE LET f == fetch_github_repos(outcome.response)
            IN IF f.raised # "no"
               THEN /\ out' = f
                    /\ NoCommit(c)
               ELSE Reconcile(c, target[c], Len(outcome.response.json.items),
                              f.data, fail)
    /\ UNCHANGED <<jobpc, snapshot, idx>>

\* The finally of line 215, and the loop of line 211 at its next username:
\* a new session and the next fetch, or the end of the job.
NextUsername ==
    IF idx < Len(snapshot)
    THEN /\ idx' = idx + 1
         /\ UNCHANGED <<jobpc, snapshot, sessions>>
    ELSE /\ jobpc' = "idle"
         /\ snapshot' = <<>>
         /\ idx' = 0
         /\ sessions' = sessions - 1

\* An exception leaves refresh_all_users through the finally of line 215.
Propagate ==
    /\ jobpc' = "idle"
    /\ snapshot' = <<>>
    /\ idx' = 0
    /\ sessions' = sessions - 1

ExceptHTTPException_Propagate == Propagate

\* Lines 191-193: the HTTPException is printed, refresh_user returns.
ExceptHTTPException == NextUsername

\* refresh_all_users up to the first await: the snapshot of lines 203-208
\* and its session, closed at line 208, in the order the SELECT returns
\* the rows, then the first iteration and its session.
refresh_all_users_start(order) ==
    /\ jobpc = "idle"
    /\ Range(order) = {u.username : u \in users}
    /\ IF order = <<>>
       THEN UNCHANGED <<jobpc, snapshot, idx, sessions>>
       ELSE /\ snapshot' = order
            /\ idx' = 1
            /\ jobpc' = "fetching"
            /\ sessions' = sessions + 1
    /\ out' = Nothing
    /\ last' = NoLast
    /\ UNCHANGED <<users, repositories, clock, pc, target, synced, stale>>

\* refresh_user from the end of the request of line 65, and the loop of
\* refresh_all_users up to the next await.
refresh_user_resume(outcome, fail) ==
    /\ jobpc = "fetching"
    /\ IF outcome.exception # "no"
       THEN /\ out' = Raise(outcome.exception, "fetch")
            /\ NoCommit("job")
            /\ Propagate
       ELSE LET f == fetch_github_repos(outcome.response)
            IN IF f.raised # "no"
               THEN /\ out' = [f EXCEPT !.raised = "printed"]
                    /\ NoCommit("job")
                    /\ ExceptHTTPException
               ELSE /\ Reconcile("job", snapshot[idx],
                                 Len(outcome.response.json.items), f.data, fail)
                    /\ IF out'.raised = "no" THEN NextUsername ELSE Propagate
    /\ UNCHANGED <<pc, target>>

\* ------------------------------------------------------ the specifications

\* The lists of the specification of the whole service.
FewLists == {Base(1, 1, 1), Base(2, 1, 1)}

FewOutcomes == Outcomes(FewLists)

FewFailPoints == {"none", "commit", "refresh"}

AllOutcomes == Outcomes(Lists)

\* The service: the callers and the scheduled job on the event loop.
Next ==
    \/ \E c \in Callers, username \in Usernames :
          sync_github_user_start(c, username)
    \/ \E c \in Callers, o \in FewOutcomes, fail \in FewFailPoints :
          sync_github_user_resume(c, o, fail)
    \/ \E order \in Seq1(Usernames) : refresh_all_users_start(order)
    \/ \E o \in FewOutcomes, fail \in FewFailPoints :
          refresh_user_resume(o, fail)

Spec == Init /\ [][Next]_vars

\* One caller at a time: every list, and a failure of the database at any
\* round trip.
NextSync ==
    \/ \E username \in Usernames : sync_github_user_start("c1", username)
    \/ \E o \in AllOutcomes, fail \in FailPoints :
          sync_github_user_resume("c1", o, fail)

SpecSync == Init /\ [][NextSync]_vars

\* The request of line 65 ends (the client has timeout=10.0) and the event
\* loop resumes the coroutine awaiting it.
FairSpec ==
    /\ Spec
    /\ WF_vars(\E o \in FewOutcomes, fail \in FewFailPoints :
                  refresh_user_resume(o, fail))

\* ---------------------------------------------------------- the properties

\* The users rows of username.
UserRows(us, username) == {u \in us : u.username = username}

\* The repositories rows of the users named username.
OwnedBy(us, repos, username) ==
    LET rows == {r \in BagToSet(repos) :
                    \E u \in UserRows(us, username) : u.id = r.user_id}
    IN [r \in rows |-> repos[r]]

Fields(r) ==
    [github_id |-> r.github_id, name |-> r.name, html_url |-> r.html_url,
     description |-> r.description, language |-> r.language]

\* The repositories stored for username, without their owner.
Stored(username) ==
    {Fields(r) : r \in DOMAIN OwnedBy(users, repositories, username)}

StoredIds(username) == {r.github_id : r \in Stored(username)}

NumStored(username) == BagCardinality(OwnedBy(users, repositories, username))

\* The records of a list that carry an id, and their ids.
Valid(data) == {j \in 1..Len(data) : "id" \in DOMAIN data[j]}

IdsOf(data) == {data[j].id : j \in Valid(data)}

DistinctIds(data) == Cardinality(IdsOf(data)) = Cardinality(Valid(data))

\* The row a record stands for: its values, null for a missing field.
RowOf(rec) ==
    [github_id |-> rec.id,
     name |-> IF "name" \in DOMAIN rec THEN rec.name ELSE None,
     html_url |-> IF "html_url" \in DOMAIN rec THEN rec.html_url ELSE None,
     description |->
        IF "description" \in DOMAIN rec THEN rec.description ELSE None,
     language |-> IF "language" \in DOMAIN rec THEN rec.language ELSE None]

\* The rows a list stands for: of the records of one id, the last.
Expected(data) ==
    {RowOf(data[j]) : j \in {k \in Valid(data) :
        \A m \in Valid(data) : data[m].id = data[k].id => m <= k}}

StoreErrors == {"OperationalError", "IntegrityError"}

UpToCommit == {"query_user", "flush", "query_repo", "delete", "commit"}

\* C1: when a reconcile has committed, the ids of the repositories stored
\* for its username are exactly the ids of the records of its list: the
\* others were deleted, and each id of the list has a row.
C1_StoredIdsAreFetchedIds ==
    last.committed => StoredIds(last.username) = IdsOf(last.data)

\* A reconcile with a non-empty list committed and deleted a repository.
C1_Witness ==
    /\ last.committed
    /\ last.stats.deleted > 0
    /\ last.data # <<>>
    /\ StoredIds(last.username) = IdsOf(last.data)

\* C2: a committed reconcile whose list is the one of the last committed
\* reconcile of the username leaves the repositories as they were, and one
\* that returns says "new" and is_new exactly for a username that had no
\* row, "updated" otherwise (so the second of two calls says "updated").
C2_Idempotent ==
    /\ (last.committed /\ last.same) => last.kept
    /\ (last.committed /\ out.raised = "no") =>
          /\ out.status = (IF last.existed THEN "updated" ELSE "new")
          /\ out.is_new = ~last.existed
          /\ out.username = last.username

\* The second of two reconciles in a row with one non-empty list returned.
C2_Witness ==
    /\ last.committed
    /\ last.same
    /\ last.data # <<>>
    /\ out.raised = "no"
    /\ out.status = "updated"

\* C3: no two rows of repositories have the same user_id and github_id,
\* and after a committed reconcile each id of its list has exactly one row
\* of the user, with the name of the last record of that id.
C3_UniqueUserRepo ==
    /\ \A r \in BagToSet(repositories) : repositories[r] = 1
    /\ \A r, q \in BagToSet(repositories) :
          (r.user_id = q.user_id /\ r.github_id = q.github_id) => r = q
    /\ last.committed =>
          \A e \in Expected(last.data) :
             \A r \in Stored(last.username) :
                r.github_id = e.github_id => r.name = e.name

\* A reconcile changed the row of repository 1 in place to its new name.
C3_Witness ==
    /\ last.committed
    /\ last.stats.updated > 0
    /\ last.stats.inserted = 0
    /\ \E r \in Stored(last.username) :
          r.github_id = 1 /\ r.name = Rec(1, 2).name
    /\ Cardinality({r \in Stored(last.username) : r.github_id = 1}) = 1

\* C4: the users row and the repositories of a username change only in a
\* step that commits a reconcile of that username.
C4_Isolation ==
    [][\A u \in Usernames :
          (\/ UserRows(users', u) # UserRows(users, u)
           \/ OwnedBy(users', repositories', u) # OwnedBy(users, repositories, u))
          => (last'.committed /\ last'.username = u)]_vars

\* bob was reconciled with a list that shares an id with the repositories
\* of alice, who keeps a repository that bob does not have.
C4_Witness ==
    /\ last.committed
    /\ last.username = "bob"
    /\ StoredIds("alice") \cap IdsOf(last.data) # {}
    /\ StoredIds("alice") \ StoredIds("bob") # {}

\* The effects of a reconcile, all of them: the users row with the time of
\* the call, and the repositories of the list.
AllApplied(us, repos, username, data, now) ==
    /\ \E u \in us : u.username = username /\ u.last_synced_at = now
    /\ {Fields(r) : r \in DOMAIN OwnedBy(us, repos, username)} = Expected(data)

\* C5 (amended): a store failure up to and including the commit leaves
\* both tables as they were before the call, and a call changes the tables
\* by all of its effects or not at all.
C5_Atomic ==
    [][last'.called =>
          /\ (out'.raised \in StoreErrors /\ out'.at \in UpToCommit) =>
                (users' = users /\ repositories' = repositories)
          /\ (users' # users \/ repositories' # repositories) =>
                AllApplied(users', repositories', last'.username, last'.data,
                           clock')]_vars

\* C5 as claimed: a store failure at any point of the call leaves both
\* tables as they were before the call.
C5_Original ==
    [][(last'.called /\ out'.raised \in StoreErrors) =>
          (users' = users /\ repositories' = repositories)]_vars

\* The commit failed for a new username whose list was not empty: there
\* is no users row of it.
C5_Witness ==
    /\ last.called
    /\ ~last.existed
    /\ last.data # <<>>
    /\ out.raised = "OperationalError"
    /\ out.at = "commit"
    /\ UserRows(users, last.username) = {}

\* C6 as claimed: with a list of records with and without id and a
\* database that is up, the call raises nothing and the user has one
\* repository for each record with an id, none for the others.
C6_Original ==
    (/\ last.called
     /\ Valid(last.data) # {}
     /\ Valid(last.data) # 1..Len(last.data)
     /\ out.raised # "OperationalError") =>
        /\ out.raised = "no"
        /\ StoredIds(last.username) = IdsOf(last.data)
        /\ NumStored(last.username) = Cardinality(Valid(last.data))

\* C7 as claimed: with a database that is up, the call raises nothing and
\* the row of each record with an id has the values of the record, null
\* for a missing field (the ids of the list being distinct).
C7_Original ==
    (/\ last.called
     /\ DistinctIds(last.data)
     /\ out.raised # "OperationalError") =>
        /\ out.raised = "no"
        /\ Expected(last.data) \subseteq Stored(last.username)

\* C8: a call gets the first five of the received records, and no user
\* has more than five repositories.
C8_AtMostFive ==
    /\ \A u \in Usernames : NumStored(u) <= TopN
    /\ last.called =>
          Len(last.data) = (IF last.received < TopN THEN last.received ELSE TopN)

\* More than five records were received and the user has five repositories.
C8_Witness ==
    /\ last.committed
    /\ last.received > TopN
    /\ NumStored(last.username) = TopN

\* C9: at any time the username of a committed reconcile has one users row
\* and the repositories of the list of its last committed reconcile,
\* whatever requests overlapped it.
C9_LastCommitterWins ==
    \A u \in Usernames :
       synced[u].known =>
          /\ Cardinality(UserRows(users, u)) = 1
          /\ Stored(u) = Expected(synced[u].data)
          /\ NumStored(u) = Cardinality(Expected(synced[u].data))

\* Two requests for one username overlapped, both have ended, and the one
\* that committed last did so after the other.
C9_Witness ==
    /\ last.committed
    /\ last.raced
    /\ last.data # <<>>
    /\ Awaiting(last.username, "-") = {}
    /\ Stored(last.username) = Expected(last.data)

\* The sessions opened and not closed are those of the coroutines that
\* await their fetch.
SessionsClosed ==
    sessions = Cardinality({c \in Callers : pc[c] = "fetching"})
               + (IF jobpc = "fetching" THEN 1 ELSE 0)

\* A step of the loop of refresh_all_users.
JobResumes == jobpc = "fetching" /\ (idx' # idx \/ jobpc' # "fetching")

\* C10 (amended): the job reads the usernames once, with a session closed
\* before the first fetch, and goes through them in order, one session
\* each; an HTTPException of a username is printed, changes nothing in the
\* store and the loop goes on; the run ends after its last username or by
\* another exception (a store failure, a failed request), and it ends.
C10_RefreshAll ==
    /\ []SessionsClosed
    /\ [][(jobpc = "idle" /\ jobpc' = "fetching") =>
             /\ Range(snapshot') = {u.username : u \in users}
             /\ Cardinality(Range(snapshot')) = Len(snapshot')
             /\ idx' = 1]_vars
    /\ [][JobResumes =>
             /\ jobpc' = "fetching" => (snapshot' = snapshot /\ idx' = idx + 1)
             /\ out'.raised = "printed" =>
                   /\ users' = users /\ repositories' = repositories
                   /\ idx < Len(snapshot) => jobpc' = "fetching"
             /\ out'.raised = "no" =>
                   (idx < Len(snapshot) => jobpc' = "fetching")
             /\ jobpc' = "idle" =>
                   \/ idx = Len(snapshot)
                   \/ out'.raised \in StoreErrors \cup {"TransportError"}]_vars
    /\ (jobpc = "fetching") ~> (jobpc = "idle")

\* C10 as claimed: a run of the job ends only after the last username of
\* its snapshot has been attempted.
C10_Original ==
    [][(jobpc = "fetching" /\ jobpc' = "idle") => idx = Len(snapshot)]_vars

\* The fetch for the first of two usernames ended in an HTTPException and
\* the job awaits the fetch for the second.
C10_Witness ==
    /\ jobpc = "fetching"
    /\ Len(snapshot) = 2
    /\ idx = 2
    /\ out.raised = "printed"

====
